---- MODULE Spec2Model ----
(***************************************************************************)
(* The city/recipe HTTP service of src/src/index.js: three request         *)
(* handlers (GET infos, POST recipes, DELETE recipe) sharing the in-memory *)
(* store recipesByCity and the counter nextRecipeId.                       *)
(*                                                                         *)
(* The requests in flight are the bag `inflight`, at most MaxInFlight.  A   *)
(* handler runs synchronously from one await to the next (single-threaded  *)
(* event loop), so each action is the code between two suspension points;  *)
(* the answer of the upstream call that ends the suspension is an input of *)
(* the action.  `sent` is the reply a handler has just handed to           *)
(* reply.send (or returned), with the request, the outcome of the upstream *)
(* call and the weather payload the step read; Flush writes it out before  *)
(* the event loop takes its next callback.                                 *)
(* issued, live and deleted are history variables written from the replies *)
(* alone: the ids of the 201 replies in order, per city the recipes of the *)
(* 201 replies less those of the 204 replies, and the (city, id) pairs of  *)
(* the 204 replies.                                                        *)
(* City identifiers are taken outside the property names of                *)
(* Object.prototype, so recipesByCity[cityId] is undefined for a city      *)
(* without a list.                                                         *)
(***************************************************************************)
EXTENDS Integers, Sequences, FiniteSets, Bags, TLC

VARIABLES recipesByCity, nextRecipeId, inflight, sent, issued, live, deleted

vars == <<recipesByCity, nextRecipeId, inflight, sent, issued, live, deleted>>

\* ------------------------------------------------------------- bounds
\* Requests in flight at once, and the last id the counter may hand out.
MaxInFlight == 2
MaxId == 3

\* ------------------------------------------------- program constants
MinContentLength == 10
MaxContentLength == 2000

\* --------------------------------------------------------------- inputs
Cities == {"c1", "c2"}

\* A value of the body field `content`: its typeof and, where it has one,
\* its length (a string, or an array as the non-string value with a length).
Undefined == [type |-> "undefined", length |-> 0]
Str(n) == [type |-> "string", length |-> n]
Arr(n) == [type |-> "object", length |-> n]

Contents == {Undefined, Arr(12), Str(0), Str(9), Str(10), Str(2000), Str(2001)}

\* request.body: absent (undefined) or an object with a content field.
NoBody == [present |-> FALSE, content |-> Undefined]
Body(c) == [present |-> TRUE, content |-> c]
AllBodies == {NoBody} \cup {Body(c) : c \in Contents}
Bodies == {Body(Str(9)), Body(Str(10))}

\* The recipeId path segment, a string given as its characters.
RecipeIdTexts == {<<"1">>, <<"2">>, <<"3">>, <<"x">>}
AllRecipeIdTexts ==
  RecipeIdTexts \cup {<<"1", "x">>, <<" ", "2">>, <<"0", "1">>, <<"+", "2">>,
                      <<"-", "1">>, <<"0", "x", "2">>, <<"0", "X">>, <<"1", "0">>,
                      <<"1", ".", "9">>, <<"4">>}

\* Outcome of awaiting fetch(): a response with ok, one without, a rejection.
FetchOutcomes == {"ok", "notok", "reject"}

\* ------------------------------------------------------------ parseInt
Digits == {"0", "1", "2", "3", "4", "5", "6", "7", "8", "9"}
WhiteSpace == {" ", "\t", "\n"}

DigitValue(ch) ==
  CASE ch = "0" -> 0 [] ch = "1" -> 1 [] ch = "2" -> 2 [] ch = "3" -> 3
    [] ch = "4" -> 4 [] ch = "5" -> 5 [] ch = "6" -> 6 [] ch = "7" -> 7
    [] ch = "8" -> 8 [] ch = "9" -> 9

RECURSIVE TrimStart(_)
TrimStart(s) ==
  IF s # <<>> /\ Head(s) \in WhiteSpace THEN TrimStart(Tail(s)) ELSE s

\* The value of the longest prefix of decimal digits of s, acc being the
\* value of the digits already read.
RECURSIVE DigitsPrefix(_, _)
DigitsPrefix(s, acc) ==
  IF s = <<>> \/ Head(s) \notin Digits THEN acc
  ELSE DigitsPrefix(Tail(s), acc * 10 + DigitValue(Head(s)))

NaN == [nan |-> TRUE, val |-> 0]
Num(n) == [nan |-> FALSE, val |-> n]

HexDigits ==
  Digits \cup {"a", "b", "c", "d", "e", "f", "A", "B", "C", "D", "E", "F"}

HexValue(ch) ==
  CASE ch \in Digits -> DigitValue(ch)
    [] ch \in {"a", "A"} -> 10 [] ch \in {"b", "B"} -> 11
    [] ch \in {"c", "C"} -> 12 [] ch \in {"d", "D"} -> 13
    [] ch \in {"e", "E"} -> 14 [] ch \in {"f", "F"} -> 15

RECURSIVE HexPrefix(_, _)
HexPrefix(s, acc) ==
  IF s = <<>> \/ Head(s) \notin HexDigits THEN acc
  ELSE HexPrefix(Tail(s), acc * 16 + HexValue(Head(s)))

\* parseInt(recipeId), no radix given: leading white space is skipped, then
\* an optional sign; after a 0x prefix the digits are hexadecimal, otherwise
\* decimal; the longest prefix of digits is the value, NaN when it is empty.
ParseInt(text) ==
  LET s == TrimStart(text)
      neg == s # <<>> /\ Head(s) = "-"
      t == IF s # <<>> /\ Head(s) \in {"-", "+"} THEN Tail(s) ELSE s
      hex == Len(t) >= 2 /\ t[1] = "0" /\ t[2] \in {"x", "X"}
      u == IF hex THEN Tail(Tail(t)) ELSE t
      ds == IF hex THEN HexDigits ELSE Digits
      v == IF hex THEN HexPrefix(u, 0) ELSE DigitsPrefix(u, 0)
  IN IF u = <<>> \/ Head(u) \notin ds THEN NaN
     ELSE Num(IF neg THEN 0 - v ELSE v)

\* r.id === parseInt(recipeId): NaN is equal to nothing.
StrictEq(id, parsed) == ~parsed.nan /\ id = parsed.val

\* ------------------------------------------------------------ responses
NoRecipe == [content |-> Undefined, id |-> 0]

NoResp ==
  [code |-> 0, error |-> "", by |-> "", recipe |-> NoRecipe, recipes |-> <<>>,
   weatherPredictions |-> <<>>, coordinates |-> <<>>, population |-> 0,
   knownFor |-> <<>>]

\* reply.code(code).send({ error })
ErrorReply(code, error) ==
  [NoResp EXCEPT !.code = code, !.error = error, !.by = "handler"]

\* An exception that leaves the handler: the framework's default error
\* reply, status 500 with its own body {statusCode, error, message}.
FrameworkError ==
  [NoResp EXCEPT !.code = 500, !.error = "framework default", !.by = "framework"]

InternalError == ErrorReply(500, "Internal Server Error")
CityNotFound == ErrorReply(404, "City not found")

\* -------------------------------------------------------------- store
HasList(store, cityId) == cityId \in DOMAIN store

\* recipesByCity[cityId] || []
ListOf(store, cityId) == IF HasList(store, cityId) THEN store[cityId] ELSE <<>>

\* The recipe pushed twice.
PushTwice(list, recipe) == Append(Append(list, recipe), recipe)

\* unshift in place of push.
PushFront(list, recipe) == <<recipe>> \o list

\* recipesByCity[cityId].push(newRecipe)
Push(list, recipe) == Append(list, recipe)

\* recipes.findIndex(r => r.id === parseInt(recipeId)): the 0-based index of
\* the first match, -1 when there is none.
FindIndex(recipes, recipeId) ==
  LET hits == {i \in 1..Len(recipes) : StrictEq(recipes[i].id, ParseInt(recipeId))}
  IN IF hits = {} THEN -1
     ELSE (CHOOSE i \in hits : \A j \in hits : i <= j) - 1

\* splice(index): everything from index on is removed.
SpliceRest(recipes, index) == SubSeq(recipes, 1, index)

\* slice in place of splice: the list is left as it was.
SpliceNothing(recipes, index) == recipes

\* The last recipe moved into the place of the removed one.
SpliceSwapLast(recipes, index) ==
  IF index + 1 = Len(recipes)
  THEN SubSeq(recipes, 1, Len(recipes) - 1)
  ELSE [SubSeq(recipes, 1, Len(recipes) - 1) EXCEPT ![index + 1] = recipes[Len(recipes)]]

\* recipes.splice(index, 1), index a 0-based position of the list.
Splice(recipes, index) ==
  SubSeq(recipes, 1, index) \o SubSeq(recipes, index + 2, Len(recipes))

\* ------------------------------------------------- POST /cities/:cityId/recipes
\* !content
Falsy(content) ==
  content.type = "undefined" \/ (content.type = "string" /\ content.length = 0)

\* The typeof check left out: anything truthy with a length goes on.
ValidateContentAnyType(content) ==
  IF Falsy(content) THEN "Content is required"
  ELSE IF content.length < MinContentLength
    THEN "Content too short (min 10 characters)"
  ELSE IF content.length > MaxContentLength
    THEN "Content too long (max 2000 characters)"
  ELSE ""

\* <= in place of < in the minimum-length check.
ValidateContentOffByOne(content) ==
  IF Falsy(content) \/ content.type # "string" THEN "Content is required"
  ELSE IF content.length <= MinContentLength
    THEN "Content too short (min 10 characters)"
  ELSE IF content.length > MaxContentLength
    THEN "Content too long (max 2000 characters)"
  ELSE ""

\* The three content checks in their order: the error message of the first
\* one that fails, "" when the content passes them all.
ValidateContent(content) ==
  IF Falsy(content) \/ content.type # "string" THEN "Content is required"
  ELSE IF content.length < MinContentLength
    THEN "Content too short (min 10 characters)"
  ELSE IF content.length > MaxContentLength
    THEN "Content too long (max 2000 characters)"
  ELSE ""

\* The counter read and never written back.
PostIncrementStuck(counter) == [value |-> counter, counter |-> counter]

\* ++nextRecipeId in place of nextRecipeId++.
PreIncrement(counter) == [value |-> counter + 1, counter |-> counter + 1]

\* nextRecipeId++ : the value used as the id, and the counter afterwards.
PostIncrement(counter) == [value |-> counter, counter |-> counter + 1]

\* The new recipe pushed on the list of every city that has one.
AppendRecipeToAll(store, cityId, recipe) ==
  [c \in DOMAIN store \cup {cityId} |-> Push(ListOf(store, c), recipe)]

\* if (!recipesByCity[cityId]) recipesByCity[cityId] = []; then the push.
AppendRecipe(store, cityId, recipe) ==
  [c \in DOMAIN store \cup {cityId} |->
     IF c = cityId THEN Push(ListOf(store, cityId), recipe) ELSE store[c]]

\* The content checks moved before the city check.
CreateRecipeValidateFirst(store, counter, cityId, content, outcome) ==
  LET keep(resp) == [store |-> store, counter |-> counter, resp |-> resp]
      inc == PostIncrement(counter)
      newRecipe == [content |-> content, id |-> inc.value]
  IN IF outcome = "reject" THEN keep(InternalError)
     ELSE IF ValidateContent(content) # ""
       THEN keep(ErrorReply(400, ValidateContent(content)))
     ELSE IF outcome = "notok" THEN keep(CityNotFound)
     ELSE [store |-> AppendRecipe(store, cityId, newRecipe),
           counter |-> inc.counter,
           resp |-> [NoResp EXCEPT !.code = 201, !.by = "handler",
                                   !.recipe = newRecipe]]

\* The list of the city made before the content is checked.
CreateRecipeListFirst(store, counter, cityId, content, outcome) ==
  LET keep(resp) == [store |-> store, counter |-> counter, resp |-> resp]
      withList == [c \in DOMAIN store \cup {cityId} |-> ListOf(store, c)]
      inc == PostIncrement(counter)
      newRecipe == [content |-> content, id |-> inc.value]
  IN IF outcome = "reject" THEN keep(InternalError)
     ELSE IF outcome = "notok" THEN keep(CityNotFound)
     ELSE IF ValidateContent(content) # ""
       THEN [store |-> withList, counter |-> counter,
             resp |-> ErrorReply(400, ValidateContent(content))]
     ELSE [store |-> AppendRecipe(store, cityId, newRecipe),
           counter |-> inc.counter,
           resp |-> [NoResp EXCEPT !.code = 201, !.by = "handler",
                                   !.recipe = newRecipe]]

\* The handler from the resumption of `await fetch` to its reply: the store,
\* the counter and the reply it leaves.
CreateRecipe(store, counter, cityId, content, outcome) ==
  LET keep(resp) == [store |-> store, counter |-> counter, resp |-> resp]
      inc == PostIncrement(counter)
      newRecipe == [content |-> content, id |-> inc.value]
  IN IF outcome = "reject" THEN keep(InternalError)
     ELSE IF outcome = "notok" THEN keep(CityNotFound)
     ELSE IF ValidateContent(content) # ""
       THEN keep(ErrorReply(400, ValidateContent(content)))
     ELSE [store |-> AppendRecipe(store, cityId, newRecipe),
           counter |-> inc.counter,
           resp |-> [NoResp EXCEPT !.code = 201, !.by = "handler",
                                   !.recipe = newRecipe]]

\* --------------------------------- DELETE /cities/:cityId/recipes/:recipeId
\* The key is deleted with the last recipe of the city.
RemoveAtAndPrune(store, cityId, index) ==
  IF Len(store[cityId]) = 1
  THEN [c \in DOMAIN store \ {cityId} |-> store[c]]
  ELSE [store EXCEPT ![cityId] = Splice(store[cityId], index)]

\* recipes.splice(index, 1) on the list of the city.
RemoveAt(store, cityId, index) ==
  [store EXCEPT ![cityId] = Splice(store[cityId], index)]

\* A delete of a recipe that is not there answered 204 as well.
DeleteRecipeLenient(store, cityId, recipeId, outcome) ==
  LET keep(resp) == [store |-> store, resp |-> resp]
  IN IF outcome = "reject" THEN keep(InternalError)
     ELSE IF outcome = "notok" THEN keep(CityNotFound)
     ELSE IF ~HasList(store, cityId)
       THEN keep(ErrorReply(404, "No recipes for this city"))
     ELSE IF FindIndex(store[cityId], recipeId) = -1
       THEN keep([NoResp EXCEPT !.code = 204, !.by = "handler"])
     ELSE [store |-> RemoveAt(store, cityId, FindIndex(store[cityId], recipeId)),
           resp |-> [NoResp EXCEPT !.code = 204, !.by = "handler"]]

\* The handler from the resumption of `await fetch` to its reply: the store
\* and the reply it leaves.
DeleteRecipe(store, cityId, recipeId, outcome) ==
  LET keep(resp) == [store |-> store, resp |-> resp]
  IN IF outcome = "reject" THEN keep(InternalError)
     ELSE IF outcome = "notok" THEN keep(CityNotFound)
     ELSE IF ~HasList(store, cityId)
       THEN keep(ErrorReply(404, "No recipes for this city"))
     ELSE IF FindIndex(store[cityId], recipeId) = -1
       THEN keep(ErrorReply(404, "Recipe not found"))
     ELSE [store |-> RemoveAt(store, cityId, FindIndex(store[cityId], recipeId)),
           resp |-> [NoResp EXCEPT !.code = 204, !.by = "handler"]]

\* ----------------------------------------------- GET /cities/:cityId/infos
\* A JSON value that may be missing.
Missing == [val |-> 0, defined |-> FALSE]
Val(n) == [val |-> n, defined |-> TRUE]

\* cityRes.json(): valid is FALSE when the body is not JSON.
GoodCity ==
  [coordinates |-> <<[latitude |-> 48, longitude |-> 2]>>, population |-> 7,
   knownFor |-> <<[content |-> "k1"], [content |-> "k2"]>>, valid |-> TRUE]
NotJsonCity ==
  [coordinates |-> <<>>, population |-> 0, knownFor |-> <<>>, valid |-> FALSE]

CityPayloads == {GoodCity, NotJsonCity}
AllCityPayloads ==
  CityPayloads \cup
    {[coordinates |-> <<>>, population |-> 7, knownFor |-> <<>>, valid |-> TRUE]}

Prediction(min, max) == [minTemperature |-> min, maxTemperature |-> max]
NoPredictions == [defined |-> FALSE, items |-> <<>>]
Predictions(items) == [defined |-> TRUE, items |-> items]

\* weatherRes.json(): an array of elements {predictions}; valid is FALSE when
\* the body is not JSON (json() rejects) or is the JSON value null
\* (weatherData[0] throws).
TwoDays ==
  [valid |-> TRUE, elems |-> <<[predictions |-> Predictions(
      <<Prediction(Val(10), Val(20)), Prediction(Val(11), Val(21))>>)]>>]
NotJsonWeather == [valid |-> FALSE, elems |-> <<>>]

WeatherPayloads == {TwoDays, NotJsonWeather}
Weather(predictions) == [valid |-> TRUE, elems |-> <<[predictions |-> predictions]>>]

AllWeatherPayloads ==
  WeatherPayloads \cup
    { [valid |-> TRUE, elems |-> <<>>],
      Weather(NoPredictions),
      Weather(Predictions(<<>>)),
      Weather(Predictions(<<Prediction(Val(10), Val(20))>>)),
      Weather(Predictions(<<Prediction(Val(10), Missing)>>)),
      Weather(Predictions(<<Prediction(Missing, Val(20)), Prediction(Val(11), Missing)>>)),
      Weather(Predictions(<<Prediction(Val(0 - 3), Val(4)), Prediction(Val(11), Val(21)),
                            Prediction(Val(12), Val(22))>>)) }

\* weatherData[0]?.predictions || []
PredictionsOf(weatherData) ==
  IF weatherData.elems # <<>> /\ weatherData.elems[1].predictions.defined
  THEN weatherData.elems[1].predictions.items
  ELSE <<>>

\* x ?? 0
OrZero(x) == IF x.defined THEN x.val ELSE 0

\* predictions[0] read for both entries.
ForecastOfFirst(when, predictions, k) ==
  [when |-> when,
   min |-> IF 0 < Len(predictions) THEN OrZero(predictions[1].minTemperature) ELSE 0,
   max |-> IF 0 < Len(predictions) THEN OrZero(predictions[1].maxTemperature) ELSE 0]

\* predictions[k]?.minTemperature ?? 0 and the same for max, k 0-based.
Forecast(when, predictions, k) ==
  [when |-> when,
   min |-> IF k < Len(predictions) THEN OrZero(predictions[k + 1].minTemperature) ELSE 0,
   max |-> IF k < Len(predictions) THEN OrZero(predictions[k + 1].maxTemperature) ELSE 0]

WeatherPredictions(weatherData) ==
  LET predictions == PredictionsOf(weatherData)
  IN <<Forecast("today", predictions, 0), Forecast("tomorrow", predictions, 1)>>

\* cityData.knownFor.map(k => k.content)
KnownFor(cityData) == [k \in 1..Len(cityData.knownFor) |-> cityData.knownFor[k].content]

\* ------------------------------------------------------------- requests
NoLocals == [coordinates |-> <<>>, population |-> 0, knownFor |-> <<>>]

Request(op, cityId, body, recipeId) ==
  [cityId |-> cityId, recipeId |-> recipeId, op |-> op, body |-> body,
   pc |-> "fetchCity", locals |-> NoLocals, beaten |-> FALSE, watched |-> FALSE]

Idle == [Request("none", "", NoBody, <<>>) EXCEPT !.pc = "idle"]

\* The request whose progress is followed: its upstream calls all return.
Watched(req) == [req EXCEPT !.watched = TRUE]

\* A request whose upstream call never returns.
Hung(req) == [req EXCEPT !.pc = "hang"]

\* No handler resumed while an upstream call of some request hangs.
PendingBehindHung ==
  IF sent.resp.code = 0 /\ \A r \in BagToSet(inflight) : r.pc # "hang"
  THEN BagToSet(inflight) ELSE {}

\* The requests whose handler the event loop may resume: none while a
\* reply is being written out.
Pending == IF sent.resp.code = 0 THEN BagToSet(inflight) ELSE {}

NothingSent ==
  [outcome |-> "", resp |-> NoResp, weatherData |-> NotJsonWeather, req |-> Idle]

\* The id a delete request addresses.
Target(req) == ParseInt(req.recipeId)

SameTarget(a, b) ==
  /\ a.op = "delete" /\ b.op = "delete" /\ a.cityId = b.cityId
  /\ ~Target(a).nan /\ Target(a) = Target(b)

\* The history after the reply resp to request req.
IssuedAfter(req, resp) ==
  IF req.op = "create" /\ resp.code = 201
  THEN Append(issued, resp.recipe.id) ELSE issued

LiveAfter(req, resp) ==
  IF req.op = "create" /\ resp.code = 201
    THEN [live EXCEPT ![req.cityId] = Append(@, resp.recipe)]
  ELSE IF req.op = "delete" /\ resp.code = 204
    THEN [live EXCEPT ![req.cityId] =
            SelectSeq(@, LAMBDA r : ~StrictEq(r.id, Target(req)))]
  ELSE live

DeletedAfter(req, resp) ==
  IF req.op = "delete" /\ resp.code = 204
  THEN deleted \cup {<<req.cityId, Target(req).val>>} ELSE deleted

\* The bag B with every delete in flight for the recipe of req marked beaten.
MarkBeaten(B, req) ==
  LET mark(e) == IF SameTarget(req, e) THEN [e EXCEPT !.beaten = TRUE] ELSE e
      unmarked(t) == [t EXCEPT !.beaten = FALSE]
      count(e) == IF e \in BagToSet(B) THEN B[e] ELSE 0
  IN [t \in {mark(e) : e \in BagToSet(B)} |->
        IF SameTarget(req, t) THEN count(t) + count(unmarked(t)) ELSE count(t)]

\* Request req is answered resp: it is in flight no more (it never was when
\* it failed on arrival), and a 204 marks the deletes in flight for the same
\* recipe.
ReplyAfter(req, outcome, weatherData, resp) ==
  /\ sent' = [outcome |-> outcome, resp |-> resp, weatherData |-> weatherData,
              req |-> req]
  /\ inflight' =
       LET rest == IF req \in BagToSet(inflight)
                   THEN inflight (-) SetToBag({req}) ELSE inflight
       IN IF resp.code = 204 THEN MarkBeaten(rest, req) ELSE rest
  /\ issued' = IssuedAfter(req, resp)
  /\ live' = LiveAfter(req, resp)
  /\ deleted' = DeletedAfter(req, resp)

\* The reply of a step that read no weather payload.
Reply(req, outcome, resp) == ReplyAfter(req, outcome, NotJsonWeather, resp)

\* Request req goes on to its next await.
Goto(req, pc, locals) ==
  /\ inflight' = (inflight (-) SetToBag({req}))
                   (+) SetToBag({[req EXCEPT !.pc = pc, !.locals = locals]})
  /\ sent' = NothingSent
  /\ UNCHANGED <<issued, live, deleted>>

Init ==
  /\ recipesByCity = <<>>
  /\ nextRecipeId = 1
  /\ inflight = EmptyBag
  /\ sent = NothingSent
  /\ issued = <<>>
  /\ live = [c \in Cities |-> <<>>]
  /\ deleted = {}

\* A request arrives while fewer than cap requests are in flight.
Arrive(req, cap) ==
  /\ sent = NothingSent
  /\ BagCardinality(inflight) < cap
  /\ inflight' = inflight (+) SetToBag({req})
  /\ sent' = NothingSent
  /\ UNCHANGED <<recipesByCity, nextRecipeId, issued, live, deleted>>

\* A GET request arrives and its handler runs up to `await fetch`.
ArriveInfo(cityId, cap) == Arrive(Request("info", cityId, NoBody, <<>>), cap)

\* A POST request arrives: `const { content } = request.body` throws on a
\* request without a body, before the try block is entered.
ArriveCreate(cityId, body, cap) ==
  IF body.present
  THEN Arrive(Request("create", cityId, body, <<>>), cap)
  ELSE /\ sent = NothingSent
       /\ BagCardinality(inflight) < cap
       /\ Reply(Request("create", cityId, body, <<>>), "", FrameworkError)
       /\ UNCHANGED <<recipesByCity, nextRecipeId>>

\* A DELETE request arrives and its handler runs up to `await fetch`.
ArriveDelete(cityId, recipeId, cap) ==
  Arrive(Request("delete", cityId, NoBody, recipeId), cap)

\* The POST handler resumes from `await fetch` and runs to its reply.
CreateResume(req, outcome) ==
  /\ req.op = "create" /\ req.pc = "fetchCity"
  /\ nextRecipeId <= MaxId
  /\ LET res == CreateRecipe(recipesByCity, nextRecipeId, req.cityId,
                             req.body.content, outcome)
     IN /\ recipesByCity' = res.store
        /\ nextRecipeId' = res.counter
        /\ Reply(req, outcome, res.resp)

\* The DELETE handler resumes from `await fetch` and runs to its reply.
DeleteResume(req, outcome) ==
  /\ req.op = "delete" /\ req.pc = "fetchCity"
  /\ LET res == DeleteRecipe(recipesByCity, req.cityId, req.recipeId, outcome)
     IN /\ recipesByCity' = res.store
        /\ Reply(req, outcome, res.resp)
  /\ UNCHANGED nextRecipeId

\* The GET handler resumes from the first `await fetch`.
InfoCityFetched(req, outcome) ==
  /\ req.op = "info" /\ req.pc = "fetchCity"
  /\ CASE outcome = "reject" -> Reply(req, outcome, InternalError)
       [] outcome = "notok" -> Reply(req, outcome, CityNotFound)
       [] outcome = "ok" -> Goto(req, "cityJson", NoLocals)
  /\ UNCHANGED <<recipesByCity, nextRecipeId>>

\* The GET handler resumes from `await cityRes.json()` and reads the payload;
\* cityData.coordinates[0] undefined makes coord.latitude throw.
InfoCityJson(req, cityData) ==
  /\ req.op = "info" /\ req.pc = "cityJson"
  /\ IF ~cityData.valid \/ cityData.coordinates = <<>>
     THEN Reply(req, "ok", InternalError)
     ELSE Goto(req, "fetchWeather",
               [coordinates |-> <<cityData.coordinates[1].latitude,
                                  cityData.coordinates[1].longitude>>,
                population |-> cityData.population,
                knownFor |-> KnownFor(cityData)])
  /\ UNCHANGED <<recipesByCity, nextRecipeId>>

\* The GET handler resumes from the second `await fetch`; weatherRes.ok is
\* not read, so a response without ok goes on like one with it.
InfoWeatherFetched(req, outcome) ==
  /\ req.op = "info" /\ req.pc = "fetchWeather"
  /\ IF outcome = "reject"
     THEN Reply(req, outcome, InternalError)
     ELSE Goto(req, "weatherJson", req.locals)
  /\ UNCHANGED <<recipesByCity, nextRecipeId>>

\* const recipes = recipesByCity[cityId] || []
InfoRecipes(store, cityId) == ListOf(store, cityId)

\* The GET handler resumes from `await weatherRes.json()` and runs to its
\* reply.
InfoWeatherJson(req, weatherData) ==
  /\ req.op = "info" /\ req.pc = "weatherJson"
  /\ IF ~weatherData.valid
     THEN Reply(req, "ok", InternalError)
     ELSE ReplyAfter(req, "ok", weatherData,
                [NoResp EXCEPT
                  !.code = 200, !.by = "handler",
                  !.coordinates = req.locals.coordinates,
                  !.population = req.locals.population,
                  !.knownFor = req.locals.knownFor,
                  !.weatherPredictions = WeatherPredictions(weatherData),
                  !.recipes = InfoRecipes(recipesByCity, req.cityId)])
  /\ UNCHANGED <<recipesByCity, nextRecipeId>>

\* The reply is written to the socket.
Flush ==
  /\ sent # NothingSent
  /\ sent' = NothingSent
  /\ UNCHANGED <<recipesByCity, nextRecipeId, inflight, issued, live, deleted>>

Next ==
  \/ \E c \in Cities : ArriveInfo(c, MaxInFlight)
  \/ \E c \in Cities, b \in Bodies : ArriveCreate(c, b, MaxInFlight)
  \/ \E c \in Cities, t \in RecipeIdTexts : ArriveDelete(c, t, MaxInFlight)
  \/ \E r \in Pending, o \in FetchOutcomes : CreateResume(r, o)
  \/ \E r \in Pending, o \in FetchOutcomes : DeleteResume(r, o)
  \/ \E r \in Pending, o \in FetchOutcomes : InfoCityFetched(r, o)
  \/ \E r \in Pending, d \in CityPayloads : InfoCityJson(r, d)
  \/ \E r \in Pending, o \in FetchOutcomes : InfoWeatherFetched(r, o)
  \/ \E r \in Pending, d \in WeatherPayloads : InfoWeatherJson(r, d)
  \/ Flush

\* Any number of requests in flight up to MaxInFlight, the inputs of Bodies
\* and RecipeIdTexts.
Spec == Init /\ [][Next]_vars

\* One request at a time, every body of AllBodies, every recipe identifier of
\* AllRecipeIdTexts and every upstream payload.
NextAllInputs ==
  \/ \E c \in Cities : ArriveInfo(c, 1)
  \/ \E c \in Cities, b \in AllBodies : ArriveCreate(c, b, 1)
  \/ \E c \in Cities, t \in AllRecipeIdTexts : ArriveDelete(c, t, 1)
  \/ \E r \in Pending, o \in FetchOutcomes : CreateResume(r, o)
  \/ \E r \in Pending, o \in FetchOutcomes : DeleteResume(r, o)
  \/ \E r \in Pending, o \in FetchOutcomes : InfoCityFetched(r, o)
  \/ \E r \in Pending, d \in AllCityPayloads : InfoCityJson(r, d)
  \/ \E r \in Pending, o \in FetchOutcomes : InfoWeatherFetched(r, o)
  \/ \E r \in Pending, d \in AllWeatherPayloads : InfoWeatherJson(r, d)
  \/ Flush

SpecAllInputs == Init /\ [][NextAllInputs]_vars

\* The upstream call that request req awaits never returns: no callback of
\* req is ever queued again.
Hang(req) ==
  /\ ~req.watched /\ req.pc # "hang"
  /\ inflight' = (inflight (-) SetToBag({req})) (+) SetToBag({Hung(req)})
  /\ UNCHANGED <<recipesByCity, nextRecipeId, sent, issued, live, deleted>>

\* The creates in flight that will resume.
CreatesInFlight ==
  BagCardinality([r \in {e \in BagToSet(inflight) : e.op = "create" /\ e.pc # "hang"}
                    |-> inflight[r]])

\* A create arrives while the ids up to MaxId suffice for every create in
\* flight.
ArriveCreateWithinIds(req, cap) ==
  /\ nextRecipeId + CreatesInFlight <= MaxId
  /\ Arrive(req, cap)

\* The watched request arrives, one at a time.
ArriveWatched(req, cap) ==
  /\ \A r \in BagToSet(inflight) : ~r.watched
  /\ IF req.op = "create"
     THEN ArriveCreateWithinIds(Watched(req), cap)
     ELSE Arrive(Watched(req), cap)

\* The handler of the watched request resumes from an await.
WatchedStep ==
  \E r \in Pending :
    /\ r.watched
    /\ \/ \E o \in FetchOutcomes : CreateResume(r, o)
       \/ \E o \in FetchOutcomes : DeleteResume(r, o)
       \/ \E o \in FetchOutcomes : InfoCityFetched(r, o)
       \/ \E d \in CityPayloads : InfoCityJson(r, d)
       \/ \E o \in FetchOutcomes : InfoWeatherFetched(r, o)
       \/ \E d \in WeatherPayloads : InfoWeatherJson(r, d)

\* The requests that arrive under SpecHanging.
HangingRequests ==
  { Request("info", "c1", NoBody, <<>>),
    Request("create", "c1", Body(Str(10)), <<>>),
    Request("delete", "c1", NoBody, <<"1">>) }

NextHanging ==
  \/ \E q \in HangingRequests :
       IF q.op = "create" THEN ArriveCreateWithinIds(q, MaxInFlight + 1)
                          ELSE Arrive(q, MaxInFlight + 1)
  \/ \E q \in HangingRequests : ArriveWatched(q, MaxInFlight + 1)
  \/ \E r \in Pending : Hang(r)
  \/ \E r \in Pending, o \in FetchOutcomes : CreateResume(r, o)
  \/ \E r \in Pending, o \in FetchOutcomes : DeleteResume(r, o)
  \/ \E r \in Pending, o \in FetchOutcomes : InfoCityFetched(r, o)
  \/ \E r \in Pending, d \in CityPayloads : InfoCityJson(r, d)
  \/ \E r \in Pending, o \in FetchOutcomes : InfoWeatherFetched(r, o)
  \/ \E r \in Pending, d \in WeatherPayloads : InfoWeatherJson(r, d)
  \/ Flush

\* Requests whose upstream calls may hang for ever, and one watched request
\* whose upstream calls return.  The event loop runs its callbacks in the
\* order they were queued: the callback of an upstream call that has
\* returned is run after finitely many others (strong fairness of
\* WatchedStep, which is disabled while another reply is written out), and a
\* reply handed to reply.send is written out (weak fairness of Flush).
SpecHanging ==
  Init /\ [][NextHanging]_vars /\ WF_vars(Flush) /\ SF_vars(WatchedStep)

\* ================================================================ claims
Ids(list) == {list[k].id : k \in 1..Len(list)}

\* The places of the store: <<city, position in the list of the city>>.
Entries ==
  UNION {{<<c, k>> : k \in 1..Len(recipesByCity[c])} : c \in DOMAIN recipesByCity}

IdAt(e) == recipesByCity[e[1]][e[2]].id

RecipeNotFound == ErrorReply(404, "Recipe not found")

\* The reply of the step, when the step is the reply to a request of kind op.
Replied(op) == sent.req.op = op /\ sent.resp.code # 0

\* C1 -- no two recipes of the store, in one city or in two, have the same id.
C1_UniqueIds ==
  \A e1 \in Entries, e2 \in Entries : IdAt(e1) = IdAt(e2) => e1 = e2

C1_Witness ==
  /\ Cardinality(Entries) = 3
  /\ \A c \in Cities : HasList(recipesByCity, c) /\ recipesByCity[c] # <<>>

\* C2 -- the ids of the 201 replies, in the order of the replies, are 1, 2,
\* 3, ...: each is greater than all earlier ones, the first is 1, the counter
\* is one past the last id issued, and no id is issued twice, deleted or not.
C2_IdsIssuedInOrder ==
  /\ \A k \in 1..Len(issued) : issued[k] = k
  /\ nextRecipeId = Len(issued) + 1
  /\ Replied("create") /\ sent.resp.code = 201
       => sent.resp.recipe.id = issued[Len(issued)]

C2_Witness ==
  /\ Replied("create") /\ sent.resp.code = 201 /\ sent.resp.recipe.id = 3
  /\ deleted # {}

\* C3 as stated -- on a city the upstream reports as existing, a create is
\* answered by the first failing check: content absent or no string -> 400
\* 'Content is required'; a string of length 0 to 9 -> 400 'Content too
\* short'; of length above 2000 -> 400 'Content too long'; otherwise 201 with
\* {id, content}, appended at the end of the list of the city.
C3_AsStated ==
  [][sent'.req.op = "create" /\ sent'.outcome = "ok" =>
       LET content == sent'.req.body.content
           cityId == sent'.req.cityId
       IN IF content.type # "string"
            THEN sent'.resp = ErrorReply(400, "Content is required")
          ELSE IF content.length <= 9
            THEN sent'.resp = ErrorReply(400, "Content too short (min 10 characters)")
          ELSE IF content.length > 2000
            THEN sent'.resp = ErrorReply(400, "Content too long (max 2000 characters)")
          ELSE /\ sent'.resp.code = 201
               /\ sent'.resp.recipe.content = content
               /\ recipesByCity'[cityId] =
                    Append(ListOf(recipesByCity, cityId), sent'.resp.recipe)]_vars

\* C3 amended -- the same, with the empty string answered 400 'Content is
\* required' like absent content, and 'Content too short' for the lengths 1
\* to 9.
C3_ValidationOrder ==
  [][sent'.req.op = "create" /\ sent'.outcome = "ok" =>
       LET content == sent'.req.body.content
           cityId == sent'.req.cityId
       IN IF content.type # "string" \/ content.length = 0
            THEN sent'.resp = ErrorReply(400, "Content is required")
          ELSE IF content.length <= 9
            THEN sent'.resp = ErrorReply(400, "Content too short (min 10 characters)")
          ELSE IF content.length > 2000
            THEN sent'.resp = ErrorReply(400, "Content too long (max 2000 characters)")
          ELSE /\ sent'.resp.code = 201
               /\ sent'.resp.recipe.content = content
               /\ recipesByCity'[cityId] =
                    Append(ListOf(recipesByCity, cityId), sent'.resp.recipe)]_vars

C3_Witness ==
  /\ Replied("create") /\ sent.outcome = "ok"
  /\ sent.req.body.content = Str(0)
  /\ sent.resp = ErrorReply(400, "Content is required")

\* C4 -- every exception raised while a request is handled is answered by the
\* handler, 500 {error: 'Internal Server Error'}: no reply is the framework's
\* default error reply.
C4_CatchAllCoversHandler ==
  sent.resp.code # 0 =>
    /\ sent.resp.by = "handler"
    /\ sent.resp.code = 500 => sent.resp = InternalError

\* C5 -- on each endpoint, an upstream city-insights response without ok is
\* answered 404 'City not found', whatever the content or the recipe id.
C5_CityCheckFirst ==
  sent.resp.code # 0 /\ sent.outcome = "notok" => sent.resp = CityNotFound

C5_Witness ==
  /\ Replied("create") /\ sent.outcome = "notok"
  /\ sent.req.body.content = Undefined
  /\ sent.resp = CityNotFound

\* C6 -- a delete answered 204 removes the one recipe of the addressed city
\* whose id is the parsed recipe identifier: the other recipes of the city
\* keep their order, the other cities' lists and the counter are unchanged.
C6_DeleteRemovesOne ==
  [][sent'.req.op = "delete" /\ sent'.resp.code = 204 =>
       LET cityId == sent'.req.cityId
           id == Target(sent'.req).val
       IN /\ ~Target(sent'.req).nan
          /\ HasList(recipesByCity, cityId)
          /\ Cardinality({k \in 1..Len(recipesByCity[cityId]) :
                            recipesByCity[cityId][k].id = id}) = 1
          /\ DOMAIN recipesByCity' = DOMAIN recipesByCity
          /\ recipesByCity'[cityId] =
               SelectSeq(recipesByCity[cityId], LAMBDA r : r.id # id)
          /\ Len(recipesByCity'[cityId]) = Len(recipesByCity[cityId]) - 1
          /\ \A c \in DOMAIN recipesByCity \ {cityId} :
               recipesByCity'[c] = recipesByCity[c]
          /\ nextRecipeId' = nextRecipeId]_vars

C6_Witness ==
  /\ Replied("delete") /\ sent.resp.code = 204
  /\ Len(recipesByCity[sent.req.cityId]) = 2
  /\ recipesByCity[sent.req.cityId][1].id < Target(sent.req).val
  /\ Target(sent.req).val < recipesByCity[sent.req.cityId][2].id

\* C7 as stated -- a city without recipes has no key in the store: a key
\* that is present holds a non-empty list.
C7_AsStated ==
  \A c \in DOMAIN recipesByCity : recipesByCity[c] # <<>>

\* C7 amended -- a city has a key in the store exactly when a create for it
\* has been answered 201: the key is absent before, and stays, with an empty
\* list, when all the recipes of the city have been deleted.
C7_KeySinceFirstCreate ==
  \A c \in Cities :
    HasList(recipesByCity, c) <=> (live[c] # <<>> \/ \E p \in deleted : p[1] = c)

C7_Witness ==
  \E c \in Cities : HasList(recipesByCity, c) /\ recipesByCity[c] = <<>>

\* C8 -- the recipes of a 200 info reply are the recipes the 201 replies
\* created for that city, less those the 204 replies deleted, in the order
\* of creation, and none of another city.
C8_InfoListsLiveRecipes ==
  Replied("info") /\ sent.resp.code = 200 => sent.resp.recipes = live[sent.req.cityId]

C8_Witness ==
  /\ Replied("info") /\ sent.resp.code = 200
  /\ Len(sent.resp.recipes) = 2
  /\ \E c \in Cities \ {sent.req.cityId} : live[c] # <<>>

\* A delete or info reply about a recipe that a 204 reply has deleted before.
AfterDelete(reply) ==
  /\ reply.req.op = "delete"
  /\ ~Target(reply.req).nan
  /\ <<reply.req.cityId, Target(reply.req).val>> \in deleted

InfoOmitsDeleted(reply) ==
  reply.req.op = "info" /\ reply.resp.code = 200 =>
    \A id \in Ids(reply.resp.recipes) : <<reply.req.cityId, id>> \notin deleted

\* C9 as stated -- once a delete of recipe r in city c is answered 204, every
\* later info of c omits r and every later delete of r in c is answered 404.
C9_AsStated ==
  [][/\ AfterDelete(sent') => sent'.resp.code = 404
     /\ InfoOmitsDeleted(sent')
     /\ deleted \subseteq deleted']_vars

\* C9 amended -- ... every later delete of r in c is answered 404, or 500
\* when its upstream call fails, and never 204.
C9_DeletedStaysDeleted ==
  [][/\ AfterDelete(sent') =>
          /\ sent'.resp.code \in {404, 500}
          /\ sent'.resp.code = 500 => sent'.outcome = "reject"
          /\ recipesByCity' = recipesByCity
     /\ InfoOmitsDeleted(sent')
     /\ deleted \subseteq deleted']_vars

C9_Witness ==
  /\ Replied("delete") /\ sent.resp = RecipeNotFound
  /\ <<sent.req.cityId, Target(sent.req).val>> \in deleted
  /\ live[sent.req.cityId] # <<>>

\* The other deletes in flight for the recipe that req addresses.
Rivals(req) ==
  {e \in BagToSet(inflight) : SameTarget(req, e) /\ (e # req \/ inflight[req] >= 2)}

\* req is one of several deletes in flight for a recipe that is in the store.
Racing(req) ==
  /\ Rivals(req) # {}
  /\ HasList(recipesByCity, req.cityId)
  /\ Target(req).val \in Ids(recipesByCity[req.cityId])

\* C10 as stated -- of two deletes in flight together for the same existing
\* recipe, resumed in either order, one is answered 204 and the other 404
\* 'Recipe not found'.
C10_AsStated ==
  [][sent'.req.op = "delete" =>
       /\ sent'.req.beaten => sent'.resp = RecipeNotFound
       /\ Racing(sent'.req) => sent'.resp.code = 204]_vars

\* C10 amended -- of the deletes in flight together for the same existing
\* recipe, the first resumed with a successful city check is answered 204
\* and removes that recipe and no other; each of the others is then never
\* answered 204, is answered 404 'Recipe not found' when its city check
\* succeeds, and removes nothing.
C10_ConcurrentDeletes ==
  [][sent'.req.op = "delete" =>
       /\ sent'.req.beaten =>
            /\ sent'.resp.code # 204
            /\ sent'.outcome = "ok" => sent'.resp = RecipeNotFound
            /\ recipesByCity' = recipesByCity
       /\ Racing(sent'.req) /\ sent'.outcome = "ok" =>
            /\ sent'.resp.code = 204
            /\ Ids(recipesByCity'[sent'.req.cityId]) =
                 Ids(recipesByCity[sent'.req.cityId]) \ {Target(sent'.req).val}
            /\ \A c \in DOMAIN recipesByCity \ {sent'.req.cityId} :
                 recipesByCity'[c] = recipesByCity[c]
            /\ \A e \in BagToSet(inflight') : SameTarget(sent'.req, e) => e.beaten]_vars

C10_Witness ==
  /\ Replied("delete") /\ sent.req.beaten /\ sent.outcome = "ok"
  /\ sent.resp = RecipeNotFound
  /\ recipesByCity[sent.req.cityId] = <<>>

\* The k-th prediction (k = 1, 2) of a weather payload, as the claim reads
\* it: the min and max of entry k of the predictions array of the first
\* element, 0 for whatever is missing.
Expected(weatherData, k, when) ==
  LET has == /\ weatherData.elems # <<>>
             /\ weatherData.elems[1].predictions.defined
             /\ Len(weatherData.elems[1].predictions.items) >= k
      p == weatherData.elems[1].predictions.items[k]
  IN [when |-> when,
      min |-> IF has /\ p.minTemperature.defined THEN p.minTemperature.val ELSE 0,
      max |-> IF has /\ p.maxTemperature.defined THEN p.maxTemperature.val ELSE 0]

\* C11 -- an info request that has got its city data and then a weather
\* payload that is a list (empty, first element without predictions, zero,
\* one or more predictions, min or max missing) is answered 200 with exactly
\* two weatherPredictions: 'today' from the first prediction, 'tomorrow' from
\* the second, 0 for each missing min or max.
C11_TwoForecasts ==
  sent.req.op = "info" /\ sent.req.pc = "weatherJson" /\ sent.weatherData.valid =>
    /\ sent.resp.code = 200
    /\ sent.resp.weatherPredictions =
         <<Expected(sent.weatherData, 1, "today"),
           Expected(sent.weatherData, 2, "tomorrow")>>

C11_Witness ==
  /\ Replied("info") /\ sent.resp.code = 200
  /\ sent.weatherData =
       Weather(Predictions(<<Prediction(Missing, Val(20)), Prediction(Val(11), Missing)>>))
  /\ sent.resp.weatherPredictions =
       <<[when |-> "today", min |-> 0, max |-> 20],
         [when |-> "tomorrow", min |-> 11, max |-> 0]>>

\* C12 -- a step changes the store or the counter only when it is the reply
\* 201 to a create or the reply 204 to a delete: every other step, the
\* replies 200, 400, 404 and 500 to info, create and delete among them,
\* leaves every list and the counter as they are.
C12_OnlyCreatedAndDeletedChange ==
  [][\/ sent'.req.op = "create" /\ sent'.resp.code = 201
     \/ sent'.req.op = "delete" /\ sent'.resp.code = 204
     \/ UNCHANGED <<recipesByCity, nextRecipeId>>]_vars

C12_Witness ==
  /\ Replied("delete") /\ sent.resp = RecipeNotFound
  /\ Target(sent.req).nan
  /\ Len(recipesByCity[sent.req.cityId]) = 2
  /\ nextRecipeId = 3

\* The recipes of a list, as a set.
Recipes(list) == {list[k] : k \in 1..Len(list)}

\* C13 -- a recipe enters the list of a city only with the reply 201 to a
\* create for that city and leaves it only with the reply 204 to a delete of
\* its id in that city, so it is never moved or copied to another list; and
\* a delete addressed to another city that upstream reports as existing, with
\* the id of the recipe, is answered 404 and changes nothing.
C13_StaysInItsCity ==
  [][/\ \A c \in DOMAIN recipesByCity' :
          \A r \in Recipes(recipesByCity'[c]) \ Recipes(ListOf(recipesByCity, c)) :
            /\ sent'.req.op = "create" /\ sent'.resp.code = 201
            /\ sent'.req.cityId = c /\ sent'.resp.recipe = r
     /\ \A c \in DOMAIN recipesByCity :
          \A r \in Recipes(recipesByCity[c]) \ Recipes(ListOf(recipesByCity', c)) :
            /\ sent'.req.op = "delete" /\ sent'.resp.code = 204
            /\ sent'.req.cityId = c /\ StrictEq(r.id, Target(sent'.req))
     /\ sent'.req.op = "delete" /\ sent'.outcome = "ok"
          /\ (\E c \in DOMAIN recipesByCity \ {sent'.req.cityId} :
                \E r \in Recipes(recipesByCity[c]) : StrictEq(r.id, Target(sent'.req)))
          => /\ sent'.resp.code = 404
             /\ recipesByCity' = recipesByCity]_vars

C13_Witness ==
  /\ Replied("delete") /\ sent.outcome = "ok" /\ sent.resp = RecipeNotFound
  /\ recipesByCity[sent.req.cityId] # <<>>
  /\ \E c \in DOMAIN recipesByCity \ {sent.req.cityId} :
       \E r \in Recipes(recipesByCity[c]) : StrictEq(r.id, Target(sent.req))

\* The watched request is in flight.
WatchedInFlight == \E r \in BagToSet(inflight) : r.watched

\* C14 -- a request whose own upstream calls return is answered in the end,
\* however many other requests in flight wait for upstream calls that never
\* return.
C14_AnsweredDespiteHanging ==
  WatchedInFlight ~> (sent.req.watched /\ sent.resp.code # 0)

C14_Witness ==
  /\ sent.req.watched /\ sent.req.op = "create" /\ sent.resp.code = 201
  /\ Cardinality({r \in BagToSet(inflight) : r.pc = "hang"}) >= 2
  /\ \E r \in BagToSet(inflight) : r.pc = "hang" /\ r.op = "delete"

\* C15 -- every recipe of the store has a string content of 10 to 2000
\* characters, and is, id and content, a recipe that a 201 reply to a create
\* for its city returned and no 204 reply has deleted since.
C15_StoredAsCreated ==
  \A e \in Entries :
    LET r == recipesByCity[e[1]][e[2]]
    IN /\ r.content.type = "string"
       /\ r.content.length >= 10 /\ r.content.length <= 2000
       /\ r \in Recipes(live[e[1]])

C15_Witness ==
  \E c \in DOMAIN recipesByCity :
    /\ Len(recipesByCity[c]) = 2
    /\ recipesByCity[c][1] = [content |-> Str(2000), id |-> 1]
    /\ recipesByCity[c][2] = [content |-> Str(10), id |-> 3]
    /\ Replied("info") /\ sent.resp.code = 200 /\ sent.req.cityId = c

\* C16 -- in each list of the store the ids grow strictly from the first
\* recipe to the last, and the counter is greater than every id of the
\* store, whatever the interleaving of the creates and deletes in flight.
C16_IdsAscendBelowCounter ==
  /\ \A c \in DOMAIN recipesByCity :
       \A j \in 1..Len(recipesByCity[c]), k \in 1..Len(recipesByCity[c]) :
         j < k => recipesByCity[c][j].id < recipesByCity[c][k].id
  /\ \A e \in Entries : IdAt(e) < nextRecipeId

C16_Witness ==
  /\ \E c \in DOMAIN recipesByCity : Ids(recipesByCity[c]) = {1, 3}
  /\ \E c \in DOMAIN recipesByCity : Ids(recipesByCity[c]) = {2}
  /\ \E r \in BagToSet(inflight) : r.op = "delete" /\ r.pc = "fetchCity"
  /\ nextRecipeId = 4

\* C17 -- after every step, whatever the interleaving: the list of each city
\* is exactly the recipes of the 201 replies for that city less those of the
\* 204 replies, each once and in the order of creation; a 204 reply deletes a
\* recipe that exactly one earlier 201 reply for that city and id created and
\* no 204 reply has deleted yet; and the counter is 1 plus the number of 201
\* replies.
C17_StoreIsCreatedLessDeleted ==
  [][/\ \A c \in Cities : ListOf(recipesByCity', c) = live'[c]
     /\ nextRecipeId' = Len(issued') + 1
     /\ sent'.req.op = "create" /\ sent'.resp.code = 201 =>
          /\ Len(issued') = Len(issued) + 1
          /\ Cardinality({k \in 1..Len(recipesByCity'[sent'.req.cityId]) :
                            recipesByCity'[sent'.req.cityId][k] = sent'.resp.recipe}) = 1
     /\ sent'.req.op = "delete" /\ sent'.resp.code = 204 =>
          /\ Cardinality({k \in 1..Len(live[sent'.req.cityId]) :
                            StrictEq(live[sent'.req.cityId][k].id, Target(sent'.req))}) = 1
          /\ \E k \in 1..Len(issued) : issued[k] = Target(sent'.req).val
          /\ <<sent'.req.cityId, Target(sent'.req).val>> \notin deleted]_vars

C17_Witness ==
  /\ Replied("delete") /\ sent.resp.code = 204
  /\ \E r \in BagToSet(inflight) : r.beaten
  /\ Len(issued) = 2 /\ recipesByCity[sent.req.cityId] # <<>>

====
